---- MODULE Spec2Model ----
(***************************************************************************)
(* State-machine model of mchp_gpio_ctl: the GPIO hardware abstraction of  *)
(* the dongle (dongle_hal_revb.rs, dongle_hal_revc.rs) and the command     *)
(* line session that drives it (main.rs).                                  *)
(*                                                                         *)
(* A register value is the set of GPIO numbers of its bank whose bit is 1. *)
(* 0x00 is the empty set; "the bit mapped to GPIO19" is membership of 19.  *)
(* Every transfer is taken to succeed. Three specifications: Spec (the HAL *)
(* as a library), SpecMain (one run of the tool), SpecRace (two operators).*)
(***************************************************************************)
EXTENDS Integers, Sequences, FiniteSets, TLC

VARIABLES
    regs,       \* the chip's GPIO registers: register name -> set of pins whose bit is 1
    last,       \* the HAL call that ran last: its name, arguments, transfers, result, output
    ncalls,     \* number of HAL calls a library client has made so far
    pwrTrack,   \* dev_power_ctl argument still in force ("none" once another call wrote)
    swTrack,    \* progress of the sequence usb_switch_configure; usb_switch_set(c)
    pinTrack,   \* progress of the sequence set_mode(p, m); set(p, s) on one pin p (SpecPins)
    cmd,        \* main: cli.command of the session
    relay,      \* main: is_relay_variant
    pc,         \* main: position of the session in main()
    is_pwr_on,  \* main: local is_pwr_on
    rev,        \* main: local pcb_revision ("Unknown" before line 217 has run)
    countdown,  \* main: loop variable i of the Sdp countdown (0 outside the loop)
    log,        \* main: HAL calls and refusals of the session so far, in order
    regs0,      \* registers as they were when the behaviour started
    opA,        \* concurrent operator A (dev_power_ctl): pc, argument, value it read
    opB         \* concurrent operator B (usb_switch_set): pc, argument, value it read

vars == <<regs, last, ncalls, pwrTrack, swTrack, pinTrack, cmd, relay, pc, is_pwr_on, rev,
          countdown, log, regs0, opA, opB>>

halVars == <<last, ncalls, pwrTrack, swTrack, pinTrack>>
mainVars == <<cmd, relay, pc, is_pwr_on, rev, countdown, log>>
raceVars == <<opA, opB>>
\* what no step of a session changes
sessionFrame == <<cmd, relay, regs0, halVars, raceVars>>

(***************************************************************************)
(* Bounds                                                                  *)
(***************************************************************************)
\* number of HAL calls a library client makes in one behaviour
MaxCalls == 3

(***************************************************************************)
(* Chip memory map (usb4604_ral): three GPIO banks, each with a Direction, *)
(* an Output and an Input register.                                        *)
(***************************************************************************)
Bank0_7 == 0 .. 7
Bank8_10 == 8 .. 10
Bank17_20 == 17 .. 20
AllPins == Bank0_7 \cup Bank8_10 \cup Bank17_20

DirRegs == {"Gpio0_7Dir", "Gpio8_10Dir", "Gpio17_20Dir"}
OutputRegs == {"Gpio0_7Output", "Gpio8_10Output", "Gpio17_20Output"}
InputRegs == {"Gpio0_7Input", "Gpio8_10Input", "Gpio17_20Input"}
RegNames == DirRegs \cup OutputRegs \cup InputRegs

BankOf(reg) ==
    IF reg \in {"Gpio0_7Dir", "Gpio0_7Output", "Gpio0_7Input"} THEN Bank0_7
    ELSE IF reg \in {"Gpio8_10Dir", "Gpio8_10Output", "Gpio8_10Input"} THEN Bank8_10
    ELSE Bank17_20

\* bitfield getter gpioN_out_en() / gpioN_out() / gpioN_in()
get_bit(value, pin) == pin \in value

\* bitfield setter set_gpioN_out_en(b) / set_gpioN_out(b): only bit N changes
set_bit(value, pin, b) == IF b THEN value \cup {pin} ELSE value \ {pin}

(***************************************************************************)
(* Register access primitive (usb4604_ral). io is the interface: the       *)
(* registers behind it and the transfers issued on it so far.              *)
(***************************************************************************)
Interface(r) == [regs |-> r, xfers |-> <<>>]

\* read_reg::<R>(interface): one read transfer, returns the register's value
read_xfer(io, reg) == [io EXCEPT !.xfers = Append(@, <<"R", reg>>)]
read_reg(io, reg) == io.regs[reg]

\* write of a whole register: one write transfer
write_reg(io, reg, value) ==
    [regs |-> [io.regs EXCEPT ![reg] = value],
     xfers |-> Append(io.xfers, <<"W", reg>>)]

\* modify_reg::<R, _>(interface, |r| r.set_gpioN(b)): read, transform, write back
modify_reg(io, reg, pin, b) ==
    write_reg(read_xfer(io, reg), reg, set_bit(read_reg(io, reg), pin, b))

Writes(xfers) == {i \in 1 .. Len(xfers) : xfers[i][1] = "W"}
Reads(xfers) == {i \in 1 .. Len(xfers) : xfers[i][1] = "R"}

\* result of a HAL function: the interface after it, its return value, what it printed
Result(io, ret, out) == [io |-> io, ret |-> ret, out |-> out]

(***************************************************************************)
(* dongle_hal_revb.rs: power switch, power fault, board revision           *)
(***************************************************************************)
\* variant of dev_power_ctl that drives the level uninverted
dev_power_ctl_not_inverting(io, pwr_on) ==
    LET io1 == modify_reg(io, "Gpio0_7Dir", 0, TRUE)
        io2 == modify_reg(io1, "Gpio0_7Output", 0, pwr_on)
    IN  Result(io2, "unit", <<>>)

\* dev_power_ctl(interface, pwr_on): GPIO0 to output, then drive it (inverting switch)
dev_power_ctl(io, pwr_on) ==
    LET io1 == modify_reg(io, "Gpio0_7Dir", 0, TRUE)
        io2 == modify_reg(io1, "Gpio0_7Output", 0, ~pwr_on)
    IN  Result(io2, "unit", <<>>)

\* variant of is_dev_power_on that reads the Input register instead of the Output register
is_dev_power_on_from_input(io) ==
    Result(read_xfer(io, "Gpio0_7Input"),
           ~get_bit(read_reg(io, "Gpio0_7Input"), 0), <<>>)

\* is_dev_power_on(interface): the inverted GPIO0 bit of the Output register
is_dev_power_on(io) ==
    Result(read_xfer(io, "Gpio0_7Output"),
           ~get_bit(read_reg(io, "Gpio0_7Output"), 0), <<>>)

\* is_dev_pwr_fault(interface): GPIO10 to input, then its inverted Input bit
is_dev_pwr_fault(io) ==
    LET io1 == modify_reg(io, "Gpio8_10Dir", 10, FALSE)
    IN  Result(read_xfer(io1, "Gpio8_10Input"),
               ~get_bit(read_reg(io1, "Gpio8_10Input"), 10), <<>>)

\* pcb_revision(interface): GPIO9 Input bit set means RevC
pcb_revision(io) ==
    LET is_revc == get_bit(read_reg(io, "Gpio8_10Input"), 9)
    IN  Result(read_xfer(io, "Gpio8_10Input"),
               IF is_revc THEN "RevC" ELSE "RevAorB", <<>>)

(***************************************************************************)
(* dongle_hal_revc.rs: header pins P0/P1, SLG_IO0/SLG_IO1, USB switch      *)
(***************************************************************************)
HeaderPin == {"P0", "P1"}
SlgPin == {"SlgIo0", "SlgIo1"}
PinMode == {"Output", "Input"}
PinState == {"High", "Low"}

\* variant of gpio_header_set_mode in which P0 sets the bit of P1
gpio_header_set_mode_same_bit(io, pin, mode) ==
    Result(modify_reg(io, "Gpio17_20Dir", 20, mode = "Output"), "unit", <<>>)

gpio_header_set_mode(io, pin, mode) ==
    LET out_en == (mode = "Output")
    IN  CASE pin = "P0" -> Result(modify_reg(io, "Gpio17_20Dir", 19, out_en), "unit", <<>>)
          [] pin = "P1" -> Result(modify_reg(io, "Gpio17_20Dir", 20, out_en), "unit", <<>>)

gpio_header_get_mode(io, pin) ==
    LET is_output ==
            CASE pin = "P0" -> get_bit(read_reg(io, "Gpio17_20Dir"), 19)
              [] pin = "P1" -> get_bit(read_reg(io, "Gpio17_20Dir"), 20)
    IN  Result(read_xfer(io, "Gpio17_20Dir"),
               IF is_output THEN "Output" ELSE "Input", <<>>)

\* variant of gpio_header_set without the mode check
gpio_header_set_unguarded(io, pin, state) ==
    Result(modify_reg(io, "Gpio17_20Output", IF pin = "P0" THEN 19 ELSE 20,
                      state = "High"), "unit", <<>>)

gpio_header_set(io, pin, state) ==
    LET m == gpio_header_get_mode(io, pin)
        is_high == (state = "High")
    IN  IF m.ret # "Output"
        THEN Result(m.io, "unit", <<"Cannot set pin in input mode">>)
        ELSE CASE pin = "P0" ->
                    Result(modify_reg(m.io, "Gpio17_20Output", 19, is_high), "unit", <<>>)
               [] pin = "P1" ->
                    Result(modify_reg(m.io, "Gpio17_20Output", 20, is_high), "unit", <<>>)

\* variant of gpio_header_get that reads the Input register whatever the pin's mode
gpio_header_get_from_input(io, pin) ==
    LET m == gpio_header_get_mode(io, pin)
        is_high ==
            CASE pin = "P0" -> get_bit(read_reg(m.io, "Gpio17_20Input"), 19)
              [] pin = "P1" -> get_bit(read_reg(m.io, "Gpio17_20Input"), 20)
    IN  Result(read_xfer(m.io, "Gpio17_20Input"), IF is_high THEN "High" ELSE "Low", <<>>)

gpio_header_get(io, pin) ==
    LET m == gpio_header_get_mode(io, pin)
        src == IF m.ret = "Output" THEN "Gpio17_20Output" ELSE "Gpio17_20Input"
        is_high ==
            CASE pin = "P0" -> get_bit(read_reg(m.io, src), 19)
              [] pin = "P1" -> get_bit(read_reg(m.io, src), 20)
    IN  Result(read_xfer(m.io, src), IF is_high THEN "High" ELSE "Low", <<>>)

slg_io_set_mode(io, pin, mode) ==
    LET out_en == (mode = "Output")
    IN  CASE pin = "SlgIo0" -> Result(modify_reg(io, "Gpio8_10Dir", 8, out_en), "unit", <<>>)
          [] pin = "SlgIo1" -> Result(modify_reg(io, "Gpio0_7Dir", 3, out_en), "unit", <<>>)

slg_io_get_mode(io, pin) ==
    CASE pin = "SlgIo0" ->
            Result(read_xfer(io, "Gpio8_10Dir"),
                   IF get_bit(read_reg(io, "Gpio8_10Dir"), 8) THEN "Output" ELSE "Input", <<>>)
      [] pin = "SlgIo1" ->
            Result(read_xfer(io, "Gpio0_7Dir"),
                   IF get_bit(read_reg(io, "Gpio0_7Dir"), 3) THEN "Output" ELSE "Input", <<>>)

slg_io_set(io, pin, state) ==
    LET m == slg_io_get_mode(io, pin)
        is_high == (state = "High")
    IN  IF m.ret # "Output"
        THEN Result(m.io, "unit", <<"Cannot set pin in input mode">>)
        ELSE CASE pin = "SlgIo0" ->
                    Result(modify_reg(m.io, "Gpio8_10Output", 8, is_high), "unit", <<>>)
               [] pin = "SlgIo1" ->
                    Result(modify_reg(m.io, "Gpio0_7Output", 3, is_high), "unit", <<>>)

slg_io_get(io, pin) ==
    LET m == slg_io_get_mode(io, pin)
        is_high ==
            CASE pin = "SlgIo0" ->
                    IF m.ret = "Output" THEN get_bit(read_reg(m.io, "Gpio8_10Output"), 8)
                    ELSE get_bit(read_reg(m.io, "Gpio8_10Input"), 8)
              [] pin = "SlgIo1" ->
                    IF m.ret = "Output" THEN get_bit(read_reg(m.io, "Gpio0_7Output"), 3)
                    ELSE get_bit(read_reg(m.io, "Gpio0_7Input"), 3)
        src ==
            CASE pin = "SlgIo0" ->
                    IF m.ret = "Output" THEN "Gpio8_10Output" ELSE "Gpio8_10Input"
              [] pin = "SlgIo1" ->
                    IF m.ret = "Output" THEN "Gpio0_7Output" ELSE "Gpio0_7Input"
    IN  Result(read_xfer(m.io, src), IF is_high THEN "High" ELSE "Low", <<>>)

usb_switch_configure(io) ==
    Result(modify_reg(io, "Gpio0_7Dir", 1, TRUE), "unit", <<>>)

\* variant of usb_switch_set that checks the pin's mode first, as slg_io_set does
usb_switch_set_guarded(io, is_connected) ==
    IF ~get_bit(read_reg(io, "Gpio0_7Dir"), 1)
    THEN Result(read_xfer(io, "Gpio0_7Dir"), "unit", <<"Cannot set pin in input mode">>)
    ELSE Result(modify_reg(read_xfer(io, "Gpio0_7Dir"), "Gpio0_7Output", 1, ~is_connected),
                "unit", <<>>)

\* 0 means the USB switch is connected to a device; no mode check precedes the write
usb_switch_set(io, is_connected) ==
    Result(modify_reg(io, "Gpio0_7Output", 1, ~is_connected), "unit", <<>>)

\* variant of usb_switch_is_connected that returns the Output bit uninverted
usb_switch_is_connected_not_inverting(io) ==
    LET io1 == read_xfer(io, "Gpio0_7Input")
        is_input == get_bit(read_reg(io, "Gpio0_7Input"), 1)
    IN  IF is_input
        THEN Result(read_xfer(io1, "Gpio0_7Input"),
                    ~get_bit(read_reg(io1, "Gpio0_7Input"), 1), <<>>)
        ELSE Result(read_xfer(io1, "Gpio0_7Output"),
                    get_bit(read_reg(io1, "Gpio0_7Output"), 1), <<>>)

\* the branch is taken on the GPIO1 bit of the Input register
usb_switch_is_connected(io) ==
    LET io1 == read_xfer(io, "Gpio0_7Input")
        is_input == get_bit(read_reg(io, "Gpio0_7Input"), 1)
    IN  IF is_input
        THEN Result(read_xfer(io1, "Gpio0_7Input"),
                    ~get_bit(read_reg(io1, "Gpio0_7Input"), 1), <<>>)
        ELSE Result(read_xfer(io1, "Gpio0_7Output"),
                    ~get_bit(read_reg(io1, "Gpio0_7Output"), 1), <<>>)

(***************************************************************************)
(* Initial register values: what the chip holds when a behaviour starts.   *)
(* Direction, Output and Input registers each follow one pattern, chosen   *)
(* independently, so every pin starts in each of its eight (direction,     *)
(* output, input) combinations, with its neighbours both set and clear.    *)
(* The Input registers have two more patterns, which set the revision      *)
(* strap GPIO9 apart from the other odd pins.                              *)
(***************************************************************************)
Patterns ==
    {{}, AllPins, {p \in AllPins : p % 2 = 0}, {p \in AllPins : p % 2 = 1}}

InputPatterns ==
    Patterns \cup {{p \in AllPins : p % 3 = 0}, {p \in AllPins : p % 3 # 0}}

RegFile(dirs, outs, ins) ==
    [reg \in RegNames |->
        BankOf(reg) \cap (IF reg \in DirRegs THEN dirs
                          ELSE IF reg \in OutputRegs THEN outs ELSE ins)]

InitRegs == {RegFile(d, o, i) : d \in Patterns, o \in Patterns, i \in InputPatterns}

NoCall == [op |-> "none", args |-> <<>>, pre |-> <<>>, xfers |-> <<>>,
           ret |-> "unit", out |-> <<>>]
Idle == [pc |-> "idle", arg |-> FALSE, tmp |-> {}, stale |-> FALSE]

\* pinTrack when no sequence on a pin is under way, and when sequences are not followed
NoPin == [pin |-> "none", mode |-> "none", state |-> "none"]
PinsOff == [pin |-> "off", mode |-> "off", state |-> "off"]

CallsIdle == last = NoCall /\ ncalls = 0 /\ pwrTrack = "none" /\ swTrack = "none"
HalIdle == CallsIdle /\ pinTrack = PinsOff
MainIdle ==
    /\ cmd = "none" /\ relay = FALSE /\ pc = "idle"
    /\ is_pwr_on = FALSE /\ rev = "Unknown" /\ countdown = 0 /\ log = <<>>
RaceIdle == opA = Idle /\ opB = Idle

(***************************************************************************)
(* The HAL as a library: a client calls any public function, with any      *)
(* arguments, in any order. One action per function.                       *)
(***************************************************************************)
OnOff(b) == IF b THEN "on" ELSE "off"

\* dev_power_ctl(on) stays in force until some other call writes a register
NextPwrTrack(op, args, res) ==
    IF op = "dev_power_ctl" THEN OnOff(args[1])
    ELSE IF Writes(res.io.xfers) # {} THEN "none"
    ELSE pwrTrack

\* usb_switch_configure(); usb_switch_set(c); usb_switch_is_connected() back to back
NextSwTrack(op, args) ==
    IF op = "usb_switch_configure" THEN "conf"
    ELSE IF op = "usb_switch_set" /\ swTrack = "conf" THEN OnOff(args[1])
    ELSE IF op = "usb_switch_is_connected" /\ swTrack \in {"on", "off"} THEN swTrack
    ELSE "none"

SetModeOps == {"gpio_header_set_mode", "slg_io_set_mode"}
GetModeOps == {"gpio_header_get_mode", "slg_io_get_mode"}
SetOps == {"gpio_header_set", "slg_io_set"}
GetOps == {"gpio_header_get", "slg_io_get"}

\* set_mode(p, m), then set(p, s) when m is Output, then get_mode(p) or get(p), back to
\* back: any call that is not on pin p ends the sequence
NextPinTrack(op, args) ==
    IF pinTrack = PinsOff THEN PinsOff
    ELSE IF op \in SetModeOps THEN [pin |-> args[1], mode |-> args[2], state |-> "none"]
    ELSE IF op \in SetOps /\ pinTrack.pin = args[1] /\ pinTrack.mode = "Output"
         THEN [pinTrack EXCEPT !.state = args[2]]
    ELSE IF op \in SetOps \cup GetOps \cup GetModeOps /\ pinTrack.pin = args[1]
         THEN pinTrack
    ELSE NoPin

\* the call op(args) ran on the registers and gave res
HalCall(op, args, res) ==
    /\ ncalls < MaxCalls
    /\ pc = "idle" /\ opA.pc = "idle"
    /\ regs' = res.io.regs
    /\ last' = [op |-> op, args |-> args, pre |-> regs, xfers |-> res.io.xfers,
                ret |-> res.ret, out |-> res.out]
    /\ ncalls' = ncalls + 1
    /\ pwrTrack' = NextPwrTrack(op, args, res)
    /\ swTrack' = NextSwTrack(op, args)
    /\ pinTrack' = NextPinTrack(op, args)
    /\ UNCHANGED <<mainVars, raceVars, regs0>>

DevPowerCtl ==
    \E pwr_on \in BOOLEAN :
        HalCall("dev_power_ctl", <<pwr_on>>, dev_power_ctl(Interface(regs), pwr_on))

IsDevPowerOn == HalCall("is_dev_power_on", <<>>, is_dev_power_on(Interface(regs)))

IsDevPwrFault == HalCall("is_dev_pwr_fault", <<>>, is_dev_pwr_fault(Interface(regs)))

PcbRevision == HalCall("pcb_revision", <<>>, pcb_revision(Interface(regs)))

GpioHeaderSetMode ==
    \E pin \in HeaderPin, mode \in PinMode :
        HalCall("gpio_header_set_mode", <<pin, mode>>,
                gpio_header_set_mode(Interface(regs), pin, mode))

GpioHeaderGetMode ==
    \E pin \in HeaderPin :
        HalCall("gpio_header_get_mode", <<pin>>, gpio_header_get_mode(Interface(regs), pin))

GpioHeaderSet ==
    \E pin \in HeaderPin, state \in PinState :
        HalCall("gpio_header_set", <<pin, state>>,
                gpio_header_set(Interface(regs), pin, state))

GpioHeaderGet ==
    \E pin \in HeaderPin :
        HalCall("gpio_header_get", <<pin>>, gpio_header_get(Interface(regs), pin))

SlgIoSetMode ==
    \E pin \in SlgPin, mode \in PinMode :
        HalCall("slg_io_set_mode", <<pin, mode>>,
                slg_io_set_mode(Interface(regs), pin, mode))

SlgIoGetMode ==
    \E pin \in SlgPin :
        HalCall("slg_io_get_mode", <<pin>>, slg_io_get_mode(Interface(regs), pin))

SlgIoSet ==
    \E pin \in SlgPin, state \in PinState :
        HalCall("slg_io_set", <<pin, state>>, slg_io_set(Interface(regs), pin, state))

SlgIoGet ==
    \E pin \in SlgPin :
        HalCall("slg_io_get", <<pin>>, slg_io_get(Interface(regs), pin))

UsbSwitchConfigure ==
    HalCall("usb_switch_configure", <<>>, usb_switch_configure(Interface(regs)))

UsbSwitchSet ==
    \E is_connected \in BOOLEAN :
        HalCall("usb_switch_set", <<is_connected>>,
                usb_switch_set(Interface(regs), is_connected))

UsbSwitchIsConnected ==
    HalCall("usb_switch_is_connected", <<>>, usb_switch_is_connected(Interface(regs)))

Init ==
    /\ regs \in InitRegs
    /\ regs0 = regs
    /\ HalIdle /\ MainIdle /\ RaceIdle

Next ==
    \/ DevPowerCtl
    \/ IsDevPowerOn
    \/ IsDevPwrFault
    \/ PcbRevision
    \/ GpioHeaderSetMode
    \/ GpioHeaderGetMode
    \/ GpioHeaderSet
    \/ GpioHeaderGet
    \/ SlgIoSetMode
    \/ SlgIoGetMode
    \/ SlgIoSet
    \/ SlgIoGet
    \/ UsbSwitchConfigure
    \/ UsbSwitchSet
    \/ UsbSwitchIsConnected

Spec == Init /\ [][Next]_vars

\* A client that works the header pins and the SLG pins only; the sequence of calls on
\* one pin is followed in pinTrack.
InitPins ==
    /\ regs \in InitRegs
    /\ regs0 = regs
    /\ CallsIdle /\ pinTrack = NoPin
    /\ MainIdle /\ RaceIdle

NextPins ==
    \/ GpioHeaderSetMode
    \/ GpioHeaderGetMode
    \/ GpioHeaderSet
    \/ GpioHeaderGet
    \/ SlgIoSetMode
    \/ SlgIoGetMode
    \/ SlgIoSet
    \/ SlgIoGet

SpecPins == InitPins /\ [][NextPins]_vars

(***************************************************************************)
(* main.rs: one run of the command line tool is one session. The session   *)
(* starts with the interface claimed (line 210); every HAL call of main is *)
(* one step, and the registers can be driven from outside between steps.   *)
(***************************************************************************)
Command(name, pin, arg) == [name |-> name, pin |-> pin, arg |-> arg]

Commands ==
    {Command(n, "-", "-") :
        n \in {"On", "Off", "Status", "List", "Udev", "Sdp", "ForceSdp", "ReleaseSdp",
               "Detach", "Attach", "FullDetach", "FullAttach"}}
    \cup {Command("GpioConfig", p, m) : p \in HeaderPin, m \in PinMode}
    \cup {Command("GpioSet", p, st) : p \in HeaderPin, st \in PinState}
    \cup {Command("GpioGet", p, "-") : p \in HeaderPin}

\* the commands main refuses on a RevA/RevB board
RevCOnly ==
    {"Sdp", "ForceSdp", "ReleaseSdp", "Detach", "Attach", "FullDetach", "FullAttach",
     "GpioConfig", "GpioSet", "GpioGet"}

Entry(op, args, res) ==
    [op |-> op, args |-> args, xfers |-> res.io.xfers, ret |-> res.ret, out |-> res.out]

\* println!(msg) of main
Println(msg) ==
    [op |-> "println", args |-> <<msg>>, xfers |-> <<>>, ret |-> "unit", out |-> <<msg>>]

NotSupported == "is not supported on PCB RevA or B"

\* main calls the HAL function op(args), which gives res, and goes to next
MainCall(op, args, res, next) ==
    /\ regs' = res.io.regs
    /\ log' = Append(log, Entry(op, args, res))
    /\ pc' = next

\* main returns after printing msg, with no HAL call
MainPrint(msg, next) ==
    /\ log' = Append(log, Println(msg))
    /\ pc' = next
    /\ UNCHANGED regs

\* lines 120-138: List and Udev return before a device is opened
MainListOrUdev ==
    /\ pc = "start" /\ cmd.name \in {"List", "Udev"}
    /\ pc' = "done"
    /\ UNCHANGED <<regs, is_pwr_on, rev, countdown, log, sessionFrame>>

\* line 212
MainReadPower ==
    /\ pc = "start" /\ cmd.name \notin {"List", "Udev"}
    /\ LET res == is_dev_power_on(Interface(regs))
       IN  /\ MainCall("is_dev_power_on", <<>>, res, "fault")
           /\ is_pwr_on' = res.ret
    /\ UNCHANGED <<rev, countdown, sessionFrame>>

\* lines 213-216
MainReadFault ==
    /\ pc = "fault"
    /\ LET res == is_dev_pwr_fault(Interface(regs))
       IN  /\ regs' = res.io.regs
           /\ log' = Append(log, Entry("is_dev_pwr_fault", <<>>, res))
                        \o (IF res.ret THEN <<Println("Power FAULT detected")>> ELSE <<>>)
           /\ pc' = "detect"
    /\ UNCHANGED <<is_pwr_on, rev, countdown, sessionFrame>>

\* line 217: the one call of pcb_revision in a session
MainDetectRevision ==
    /\ pc = "detect"
    /\ LET res == pcb_revision(Interface(regs))
       IN  /\ MainCall("pcb_revision", <<>>, res, "dispatch")
           /\ rev' = res.ret
    /\ UNCHANGED <<is_pwr_on, countdown, sessionFrame>>

\* lines 225-232
CmdOn ==
    /\ pc = "dispatch" /\ cmd.name = "On"
    /\ IF is_pwr_on
       THEN MainPrint("Power is already ON", "done")
       ELSE MainCall("dev_power_ctl", <<TRUE>>, dev_power_ctl(Interface(regs), TRUE), "done")
    /\ UNCHANGED <<is_pwr_on, rev, countdown, sessionFrame>>

\* lines 233-240
CmdOff ==
    /\ pc = "dispatch" /\ cmd.name = "Off"
    /\ IF is_pwr_on
       THEN MainCall("dev_power_ctl", <<FALSE>>, dev_power_ctl(Interface(regs), FALSE), "done")
       ELSE MainPrint("Power is already OFF", "done")
    /\ UNCHANGED <<is_pwr_on, rev, countdown, sessionFrame>>

\* variant of lines 241-252 that detects the revision again for the status line
CmdStatus_detect_again ==
    /\ pc = "dispatch" /\ cmd.name = "Status"
    /\ rev' = pcb_revision(Interface(regs)).ret
    /\ MainPrint(IF is_pwr_on THEN "Power is ON" ELSE "Power is OFF",
                 IF rev' = "RevC" THEN "status_sw" ELSE "done")
    /\ UNCHANGED <<is_pwr_on, countdown, sessionFrame>>

\* lines 241-252: the RevC reads follow only on a RevC board
CmdStatus ==
    /\ pc = "dispatch" /\ cmd.name = "Status"
    /\ MainPrint(IF is_pwr_on THEN "Power is ON" ELSE "Power is OFF",
                 IF rev = "RevC" THEN "status_sw" ELSE "done")
    /\ UNCHANGED <<is_pwr_on, rev, countdown, sessionFrame>>

\* lines 253-256
StatusUsbSwitch ==
    /\ pc = "status_sw"
    /\ MainCall("usb_switch_is_connected", <<>>,
                usb_switch_is_connected(Interface(regs)), "status_slg0")
    /\ UNCHANGED <<is_pwr_on, rev, countdown, sessionFrame>>

\* lines 257-260
StatusSlgIo0 ==
    /\ pc = "status_slg0"
    /\ MainCall("slg_io_get", <<"SlgIo0">>, slg_io_get(Interface(regs), "SlgIo0"),
                "status_slg1")
    /\ UNCHANGED <<is_pwr_on, rev, countdown, sessionFrame>>

\* lines 261-264
StatusSlgIo1 ==
    /\ pc = "status_slg1"
    /\ MainCall("slg_io_get", <<"SlgIo1">>, slg_io_get(Interface(regs), "SlgIo1"),
                "status_p0")
    /\ UNCHANGED <<is_pwr_on, rev, countdown, sessionFrame>>

\* mode then state of a header pin, as lines 278-288 read them
HeaderModeAndState(pin) ==
    LET m == gpio_header_get_mode(Interface(regs), pin)
        g == gpio_header_get(Interface(m.io.regs), pin)
    IN  <<Entry("gpio_header_get_mode", <<pin>>, m), Entry("gpio_header_get", <<pin>>, g)>>

\* lines 265-283: on the relay variant the state of P0 is read only in output mode
StatusP0 ==
    /\ pc = "status_p0"
    /\ LET m == gpio_header_get_mode(Interface(regs), "P0")
       IN  log' = log \o
                (IF relay /\ m.ret = "Input"
                 THEN <<Entry("gpio_header_get_mode", <<"P0">>, m),
                        Println("Relay pin p0 is configured as Input, relay won't work")>>
                 ELSE HeaderModeAndState("P0"))
    /\ pc' = "status_p1"
    /\ UNCHANGED <<regs, is_pwr_on, rev, countdown, sessionFrame>>

\* lines 284-288
StatusP1 ==
    /\ pc = "status_p1"
    /\ log' = log \o HeaderModeAndState("P1")
    /\ pc' = "done"
    /\ UNCHANGED <<regs, is_pwr_on, rev, countdown, sessionFrame>>

\* lines 297-300, 322-328, 342-348, 367-370: refused before any HAL call
RefuseOnRevAorB ==
    /\ pc = "dispatch" /\ cmd.name \in RevCOnly /\ rev = "RevAorB"
    /\ MainPrint(NotSupported, "done")
    /\ UNCHANGED <<is_pwr_on, rev, countdown, sessionFrame>>

\* line 301
SdpSetMode ==
    /\ pc = "dispatch" /\ cmd.name \in {"Sdp", "ForceSdp", "ReleaseSdp"} /\ rev # "RevAorB"
    /\ MainCall("slg_io_set_mode", <<"SlgIo0", "Output">>,
                slg_io_set_mode(Interface(regs), "SlgIo0", "Output"), "sdp_set")
    /\ UNCHANGED <<is_pwr_on, rev, countdown, sessionFrame>>

\* lines 303-310: ForceSdp and Sdp drive High, ReleaseSdp drives Low
SdpSet ==
    /\ pc = "sdp_set"
    /\ LET state == IF cmd.name = "ReleaseSdp" THEN "Low" ELSE "High"
       IN  MainCall("slg_io_set", <<"SlgIo0", state>>,
                    slg_io_set(Interface(regs), "SlgIo0", state),
                    IF cmd.name = "Sdp" THEN "sdp_countdown" ELSE "done")
    /\ countdown' = IF cmd.name = "Sdp" THEN 10 ELSE 0
    /\ UNCHANGED <<is_pwr_on, rev, sessionFrame>>

\* lines 311-314: for i in (1..=10).rev(), print i and sleep one second
SdpCountdown ==
    /\ pc = "sdp_countdown"
    /\ countdown' = countdown - 1
    /\ pc' = IF countdown = 1 THEN "sdp_release" ELSE "sdp_countdown"
    /\ UNCHANGED <<regs, is_pwr_on, rev, log, sessionFrame>>

\* variant of the Sdp arm that returns after the countdown without line 315
SdpRelease_omitted ==
    /\ pc = "sdp_release"
    /\ pc' = "done"
    /\ UNCHANGED <<regs, log, is_pwr_on, rev, countdown, sessionFrame>>

\* line 315
SdpRelease ==
    /\ pc = "sdp_release"
    /\ MainCall("slg_io_set", <<"SlgIo0", "Low">>,
                slg_io_set(Interface(regs), "SlgIo0", "Low"), "done")
    /\ UNCHANGED <<is_pwr_on, rev, countdown, sessionFrame>>

\* variant of line 329 reached without the revision check of lines 322-328
SwitchConfigure_any_revision ==
    /\ pc = "dispatch" /\ cmd.name \in {"Attach", "Detach"}
    /\ MainCall("usb_switch_configure", <<>>, usb_switch_configure(Interface(regs)),
                "sw_set")
    /\ UNCHANGED <<is_pwr_on, rev, countdown, sessionFrame>>

\* line 329
SwitchConfigure ==
    /\ pc = "dispatch" /\ cmd.name \in {"Attach", "Detach"} /\ rev # "RevAorB"
    /\ MainCall("usb_switch_configure", <<>>, usb_switch_configure(Interface(regs)),
                "sw_set")
    /\ UNCHANGED <<is_pwr_on, rev, countdown, sessionFrame>>

\* lines 330-338
SwitchSet ==
    /\ pc = "sw_set"
    /\ LET c == (cmd.name = "Attach")
       IN  MainCall("usb_switch_set", <<c>>, usb_switch_set(Interface(regs), c), "done")
    /\ UNCHANGED <<is_pwr_on, rev, countdown, sessionFrame>>

\* line 349
FullConfigure ==
    /\ pc = "dispatch" /\ cmd.name \in {"FullAttach", "FullDetach"} /\ rev # "RevAorB"
    /\ MainCall("usb_switch_configure", <<>>, usb_switch_configure(Interface(regs)),
                "full_mode")
    /\ UNCHANGED <<is_pwr_on, rev, countdown, sessionFrame>>

\* variant of line 350 that leaves the mode of SLG_IO1 as it is
FullSetMode_skipped ==
    /\ pc = "full_mode"
    /\ pc' = "full_power"
    /\ UNCHANGED <<regs, log, is_pwr_on, rev, countdown, sessionFrame>>

\* line 350
FullSetMode ==
    /\ pc = "full_mode"
    /\ MainCall("slg_io_set_mode", <<"SlgIo1", "Output">>,
                slg_io_set_mode(Interface(regs), "SlgIo1", "Output"), "full_power")
    /\ UNCHANGED <<is_pwr_on, rev, countdown, sessionFrame>>

\* lines 353, 358
FullPower ==
    /\ pc = "full_power"
    /\ LET on == (cmd.name = "FullAttach")
       IN  MainCall("dev_power_ctl", <<on>>, dev_power_ctl(Interface(regs), on),
                    "full_switch")
    /\ UNCHANGED <<is_pwr_on, rev, countdown, sessionFrame>>

\* lines 354, 359
FullSwitch ==
    /\ pc = "full_switch"
    /\ LET c == (cmd.name = "FullAttach")
       IN  MainCall("usb_switch_set", <<c>>, usb_switch_set(Interface(regs), c), "full_slg")
    /\ UNCHANGED <<is_pwr_on, rev, countdown, sessionFrame>>

\* lines 355, 360
FullSlg ==
    /\ pc = "full_slg"
    /\ LET state == IF cmd.name = "FullAttach" THEN "High" ELSE "Low"
       IN  MainCall("slg_io_set", <<"SlgIo1", state>>,
                    slg_io_set(Interface(regs), "SlgIo1", state), "done")
    /\ UNCHANGED <<is_pwr_on, rev, countdown, sessionFrame>>

\* lines 372-377
CmdGpioConfig ==
    /\ pc = "dispatch" /\ cmd.name = "GpioConfig" /\ rev # "RevAorB"
    /\ LET res == gpio_header_set_mode(Interface(regs), cmd.pin, cmd.arg)
           warn == relay /\ cmd.pin = "P0" /\ cmd.arg = "Input"
       IN  /\ regs' = res.io.regs
           /\ log' = log
                \o (IF warn
                    THEN <<Println("Configuring relay control pin as input, relay won't work")>>
                    ELSE <<>>)
                \o <<Entry("gpio_header_set_mode", <<cmd.pin, cmd.arg>>, res)>>
           /\ pc' = "done"
    /\ UNCHANGED <<is_pwr_on, rev, countdown, sessionFrame>>

\* lines 378-380
CmdGpioSet ==
    /\ pc = "dispatch" /\ cmd.name = "GpioSet" /\ rev # "RevAorB"
    /\ MainCall("gpio_header_set", <<cmd.pin, cmd.arg>>,
                gpio_header_set(Interface(regs), cmd.pin, cmd.arg), "done")
    /\ UNCHANGED <<is_pwr_on, rev, countdown, sessionFrame>>

\* lines 381-384
CmdGpioGet ==
    /\ pc = "dispatch" /\ cmd.name = "GpioGet" /\ rev # "RevAorB"
    /\ MainCall("gpio_header_get", <<cmd.pin>>,
                gpio_header_get(Interface(regs), cmd.pin), "done")
    /\ UNCHANGED <<is_pwr_on, rev, countdown, sessionFrame>>

\* the board drives its sense lines from outside: the revision strap GPIO9 and the
\* power fault line GPIO10 of the 8-10 Input register can change at any moment
ExternalPins == {9, 10}

ExternalInput ==
    /\ pc \notin {"idle", "done"}
    /\ \E p \in ExternalPins :
        regs' = [regs EXCEPT !["Gpio8_10Input"] =
                    set_bit(@, p, ~get_bit(@, p))]
    /\ UNCHANGED <<is_pwr_on, rev, countdown, log, pc, sessionFrame>>

NextMain ==
    \/ MainListOrUdev
    \/ MainReadPower
    \/ MainReadFault
    \/ MainDetectRevision
    \/ CmdOn
    \/ CmdOff
    \/ CmdStatus
    \/ StatusUsbSwitch
    \/ StatusSlgIo0
    \/ StatusSlgIo1
    \/ StatusP0
    \/ StatusP1
    \/ RefuseOnRevAorB
    \/ SdpSetMode
    \/ SdpSet
    \/ SdpCountdown
    \/ SdpRelease
    \/ SwitchConfigure
    \/ SwitchSet
    \/ FullConfigure
    \/ FullSetMode
    \/ FullPower
    \/ FullSwitch
    \/ FullSlg
    \/ CmdGpioConfig
    \/ CmdGpioSet
    \/ CmdGpioGet
    \/ ExternalInput

InitMain ==
    /\ regs \in InitRegs
    /\ regs0 = regs
    /\ cmd \in Commands
    /\ relay \in BOOLEAN
    /\ pc = "start"
    /\ is_pwr_on = FALSE /\ rev = "Unknown" /\ countdown = 0 /\ log = <<>>
    /\ HalIdle /\ RaceIdle

SpecMain == InitMain /\ [][NextMain]_vars

\* main is one sequential thread and every transfer succeeds, so the statement it
\* stands at is executed in the end: each step of main changes pc or countdown, the
\* lines driven from outside never do, and the sleep of line 313 is one second long
progress == <<pc, countdown>>
SpecMainFair == SpecMain /\ WF_progress(NextMain)

(***************************************************************************)
(* Two operators on one device: A runs dev_power_ctl, B runs               *)
(* usb_switch_set. modify_reg takes no lock, so the read transfer and the  *)
(* write transfer of each modify_reg are separate steps, and the steps of  *)
(* A and B interleave. tmp is the register value the operator read; stale  *)
(* records that the other operator wrote the register after that read.     *)
(***************************************************************************)
\* read transfer of modify_reg: the operator keeps the value it read
ReadStep(op, reg, next) ==
    [op EXCEPT !.pc = next, !.tmp = read_reg(Interface(regs), reg), !.stale = FALSE]

\* write transfer of modify_reg: the value read earlier, transformed, is written back
WriteStep(op, reg, pin, b) ==
    write_reg(Interface(regs), reg, set_bit(op.tmp, pin, b)).regs

\* the other operator, if it holds a value of reg it has yet to write back, holds a stale one
Overtaken(other, reg, pcs) ==
    IF other.pc \in pcs THEN [other EXCEPT !.stale = TRUE] ELSE other

\* dev_power_ctl, lines 13-15: modify_reg::<Gpio0_7Dir>
PowerDirRead ==
    /\ opA.pc = "rd_dir"
    /\ opA' = ReadStep(opA, "Gpio0_7Dir", "wr_dir")
    /\ UNCHANGED <<regs, opB, regs0, halVars, mainVars>>

PowerDirWrite ==
    /\ opA.pc = "wr_dir"
    /\ regs' = WriteStep(opA, "Gpio0_7Dir", 0, TRUE)
    /\ opA' = [opA EXCEPT !.pc = "rd_out"]
    /\ UNCHANGED <<opB, regs0, halVars, mainVars>>

\* dev_power_ctl, lines 16-18: modify_reg::<Gpio0_7Output>
PowerOutRead ==
    /\ opA.pc = "rd_out"
    /\ opA' = ReadStep(opA, "Gpio0_7Output", "wr_out")
    /\ UNCHANGED <<regs, opB, regs0, halVars, mainVars>>

PowerOutWrite ==
    /\ opA.pc = "wr_out"
    /\ regs' = WriteStep(opA, "Gpio0_7Output", 0, ~opA.arg)
    /\ opA' = [opA EXCEPT !.pc = "done"]
    /\ opB' = Overtaken(opB, "Gpio0_7Output", {"wr_out"})
    /\ UNCHANGED <<regs0, halVars, mainVars>>

\* usb_switch_set, line 200: modify_reg::<Gpio0_7Output>
SwitchOutRead ==
    /\ opB.pc = "rd_out"
    /\ opB' = ReadStep(opB, "Gpio0_7Output", "wr_out")
    /\ UNCHANGED <<regs, opA, regs0, halVars, mainVars>>

\* variant of the write of usb_switch_set that takes the register as it is now
SwitchOutWrite_atomic ==
    /\ opB.pc = "wr_out"
    /\ regs' = [regs EXCEPT !["Gpio0_7Output"] = set_bit(@, 1, ~opB.arg)]
    /\ opB' = [opB EXCEPT !.pc = "done"]
    /\ opA' = Overtaken(opA, "Gpio0_7Output", {"wr_out"})
    /\ UNCHANGED <<regs0, halVars, mainVars>>

SwitchOutWrite ==
    /\ opB.pc = "wr_out"
    /\ regs' = WriteStep(opB, "Gpio0_7Output", 1, ~opB.arg)
    /\ opB' = [opB EXCEPT !.pc = "done"]
    /\ opA' = Overtaken(opA, "Gpio0_7Output", {"wr_out"})
    /\ UNCHANGED <<regs0, halVars, mainVars>>

InitRace ==
    /\ regs \in InitRegs
    /\ regs0 = regs
    /\ \E a \in BOOLEAN : opA = [pc |-> "rd_dir", arg |-> a, tmp |-> {}, stale |-> FALSE]
    /\ \E b \in BOOLEAN : opB = [pc |-> "rd_out", arg |-> b, tmp |-> {}, stale |-> FALSE]
    /\ HalIdle /\ MainIdle

NextRace ==
    \/ PowerDirRead
    \/ PowerDirWrite
    \/ PowerOutRead
    \/ PowerOutWrite
    \/ SwitchOutRead
    \/ SwitchOutWrite

SpecRace == InitRace /\ [][NextRace]_vars

(***************************************************************************)
(* Properties                                                              *)
(***************************************************************************)
\* the pin map of the RevC board (dongle_hal_revc.rs lines 1-10): the GPIO behind a name
GpioOf(pin) ==
    CASE pin = "P0" -> 19
      [] pin = "P1" -> 20
      [] pin = "SlgIo0" -> 8
      [] pin = "SlgIo1" -> 3

DirRegOf(pin) ==
    CASE pin \in HeaderPin -> "Gpio17_20Dir"
      [] pin = "SlgIo0" -> "Gpio8_10Dir"
      [] pin = "SlgIo1" -> "Gpio0_7Dir"

OutputRegOf(pin) ==
    CASE pin \in HeaderPin -> "Gpio17_20Output"
      [] pin = "SlgIo0" -> "Gpio8_10Output"
      [] pin = "SlgIo1" -> "Gpio0_7Output"

\* the last call was a set of a header or forced-mode pin whose Direction bit read Input
SetOnInputPin ==
    /\ last.op \in {"gpio_header_set", "slg_io_set"}
    /\ ~get_bit(last.pre[DirRegOf(last.args[1])], GpioOf(last.args[1]))

\* the set was refused without a write: no write transfer, no register changed
RefusedWithoutWrite ==
    /\ Writes(last.xfers) = {}
    /\ regs = last.pre

\* C1 as stated: a set on a pin in input mode issues no write transfer, leaves the
\* Direction and Output registers unchanged and returns ModeMismatch to its caller.
C1_Original ==
    SetOnInputPin => (RefusedWithoutWrite /\ last.ret = "ModeMismatch")

\* C1 amended: a set on a pin in input mode issues no write transfer (only the one read
\* of the Direction register), leaves every register unchanged, prints "Cannot set pin
\* in input mode" and returns unit: the refusal reaches the caller as no value.
C1_Amended ==
    SetOnInputPin =>
        /\ RefusedWithoutWrite
        /\ last.xfers = <<<<"R", DirRegOf(last.args[1])>>>>
        /\ last.out = <<"Cannot set pin in input mode">>
        /\ last.ret = "unit"

\* a refused gpio_header_set(P0, High) whose write would have changed the Output register
C1_Witness ==
    /\ SetOnInputPin
    /\ last.op = "gpio_header_set" /\ last.args = <<"P0", "High">>
    /\ ~get_bit(regs["Gpio17_20Output"], 19)
    /\ last.out # <<>>

\* the HAL functions that drive or read what only a RevC board has
RevCFunctions ==
    {"gpio_header_set_mode", "gpio_header_get_mode", "gpio_header_set", "gpio_header_get",
     "slg_io_set_mode", "slg_io_get_mode", "slg_io_set", "slg_io_get",
     "usb_switch_configure", "usb_switch_set", "usb_switch_is_connected"}

\* the GPIOs that only a RevC board wires to the switch, the SLG lines and the header
RevCGpios == {1, 3, 8, 19, 20}

\* C2: on a session that detected RevAorB no RevC-only HAL function is called. A
\* RevC-only command is refused ("is not supported on PCB RevA or B") right after the
\* detection, with no register transfer, and bits GPIO1, GPIO3, GPIO8, GPIO19, GPIO20
\* of every Direction and Output register are as they were when the session started.
C2_RefusedOnRevAorB ==
    rev = "RevAorB" =>
        /\ \A i \in 1 .. Len(log) : log[i].op \notin RevCFunctions
        /\ \A reg \in DirRegs \cup OutputRegs :
                regs[reg] \cap RevCGpios = regs0[reg] \cap RevCGpios
        /\ cmd.name \in RevCOnly =>
            /\ pc \in {"dispatch", "done"}
            /\ \A i \in 1 .. Len(log) : \A w \in Writes(log[i].xfers) :
                    log[i].op = "is_dev_pwr_fault" /\ log[i].xfers[w][2] = "Gpio8_10Dir"
            /\ pc = "done" =>
                    /\ log[Len(log)] = Println(NotSupported)
                    /\ log[Len(log) - 1].op = "pcb_revision"

\* an Attach (usb_switch_set(true)) refused on a RevA/RevB board whose switch bit is 1
C2_Witness ==
    /\ rev = "RevAorB" /\ cmd.name = "Attach" /\ pc = "done"
    /\ get_bit(regs["Gpio0_7Output"], 1)
    /\ ~get_bit(regs["Gpio0_7Dir"], 1)

\* the bits a read-modify-write HAL function is to change, per register
TargetBits(op, args, reg) ==
    CASE op = "dev_power_ctl" /\ reg \in {"Gpio0_7Dir", "Gpio0_7Output"} -> {0}
      [] op = "is_dev_pwr_fault" /\ reg = "Gpio8_10Dir" -> {10}
      [] op = "gpio_header_set_mode" /\ reg = DirRegOf(args[1]) -> {GpioOf(args[1])}
      [] op = "gpio_header_set" /\ reg = OutputRegOf(args[1]) -> {GpioOf(args[1])}
      [] op = "slg_io_set_mode" /\ reg = DirRegOf(args[1]) -> {GpioOf(args[1])}
      [] op = "slg_io_set" /\ reg = OutputRegOf(args[1]) -> {GpioOf(args[1])}
      [] op = "usb_switch_configure" /\ reg = "Gpio0_7Dir" -> {1}
      [] op = "usb_switch_set" /\ reg = "Gpio0_7Output" -> {1}
      [] OTHER -> {}

ReadModifyWriteOps ==
    {"dev_power_ctl", "is_dev_pwr_fault", "gpio_header_set_mode", "gpio_header_set",
     "slg_io_set_mode", "slg_io_set", "usb_switch_configure", "usb_switch_set"}

\* the bits in which two values of a register differ
ChangedBits(before, after) == (before \ after) \cup (after \ before)

\* C3: a read-modify-write HAL function changes, in each register it writes, only the
\* bit of its own pin, and writes no other register, whatever the registers held; from
\* a 17-20 Direction register of 0x00, gpio_header_set_mode(P0, Output) leaves exactly
\* bit GPIO19 set.
C3_OnlyOwnBit ==
    last.op \in ReadModifyWriteOps =>
        /\ \A reg \in RegNames :
                ChangedBits(last.pre[reg], regs[reg]) \subseteq
                    TargetBits(last.op, last.args, reg)
        /\ \A i \in Writes(last.xfers) :
                TargetBits(last.op, last.args, last.xfers[i][2]) # {}
        /\ (/\ last.op = "gpio_header_set_mode"
            /\ last.args = <<"P0", "Output">>
            /\ last.pre["Gpio17_20Dir"] = {}) => regs["Gpio17_20Dir"] = {19}

\* gpio_header_set_mode(P0, Output) on a Direction register of 0x00, and
\* gpio_header_set_mode(P0, Input) on one of all ones
C3_Witness ==
    /\ last.op = "gpio_header_set_mode"
    /\ \/ /\ last.args = <<"P0", "Output">>
          /\ last.pre["Gpio17_20Dir"] = {}
          /\ regs["Gpio17_20Dir"] = {19}
       \/ /\ last.args = <<"P0", "Input">>
          /\ last.pre["Gpio17_20Dir"] = Bank17_20
          /\ regs["Gpio17_20Dir"] = {17, 18, 20}

\* C4: is_dev_power_on() after dev_power_ctl(on), with no register write in between,
\* returns on, for both values of on and whatever the registers held before.
C4_PowerRoundTrip ==
    (last.op = "is_dev_power_on" /\ pwrTrack # "none") =>
        last.ret = (pwrTrack = "on")

\* power was off (bit 1), dev_power_ctl(true) ran, and is_dev_power_on() returned true
C4_Witness ==
    /\ last.op = "is_dev_power_on" /\ pwrTrack = "on"
    /\ get_bit(regs0["Gpio0_7Output"], 0)
    /\ last.ret = TRUE

\* C5: after dev_power_ctl(on) bit GPIO0 of the 0-7 Output register is 0 for on = true
\* and 1 for on = false; after usb_switch_set(c) bit GPIO1 of that register is 0 for
\* c = true and 1 for c = false.
C5_Polarity ==
    /\ last.op = "dev_power_ctl" =>
            get_bit(regs["Gpio0_7Output"], 0) = ~last.args[1]
    /\ last.op = "usb_switch_set" =>
            get_bit(regs["Gpio0_7Output"], 1) = ~last.args[1]

\* usb_switch_set(true) cleared a GPIO1 bit that was 1
C5_Witness ==
    /\ last.op = "usb_switch_set" /\ last.args = <<TRUE>>
    /\ get_bit(last.pre["Gpio0_7Output"], 1)
    /\ ~get_bit(regs["Gpio0_7Output"], 1)

\* the last call was usb_switch_set on a switch pin whose Direction bit read Input
SwitchSetOnInputPin ==
    /\ last.op = "usb_switch_set"
    /\ ~get_bit(last.pre["Gpio0_7Dir"], 1)

\* C6 as stated: usb_switch_set on a GPIO1 that is not an output is refused: no write
\* transfer is issued and the 0-7 Output register is unchanged.
C6_Original ==
    SwitchSetOnInputPin =>
        /\ Writes(last.xfers) = {}
        /\ regs["Gpio0_7Output"] = last.pre["Gpio0_7Output"]

\* C6 amended: usb_switch_set carries no mode guard. Whatever the Direction bit of
\* GPIO1 reads, it never reads the Direction register, issues one read and one write of
\* the 0-7 Output register, leaves bit GPIO1 of it at the inverse of its argument, prints
\* nothing, and leaves the Direction register as it was. Only gpio_header_set and
\* slg_io_set are guarded.
C6_Amended ==
    last.op = "usb_switch_set" =>
        /\ last.xfers = <<<<"R", "Gpio0_7Output">>, <<"W", "Gpio0_7Output">>>>
        /\ regs["Gpio0_7Output"] = set_bit(last.pre["Gpio0_7Output"], 1, ~last.args[1])
        /\ regs["Gpio0_7Dir"] = last.pre["Gpio0_7Dir"]
        /\ last.out = <<>>

\* usb_switch_set(false) changed the Output register while GPIO1 was an input
C6_Witness ==
    /\ SwitchSetOnInputPin
    /\ last.args = <<FALSE>>
    /\ regs["Gpio0_7Output"] # last.pre["Gpio0_7Output"]
    /\ ~get_bit(regs["Gpio0_7Dir"], 1)

\* number of pcb_revision calls in a session log
Detections(l) == Cardinality({i \in 1 .. Len(l) : l[i].op = "pcb_revision"})

C8_SwitchRoundTrip ==
    (/\ last.op = "usb_switch_is_connected"
     /\ swTrack \in {"on", "off"}
     /\ get_bit(regs["Gpio8_10Input"], 9)
     /\ get_bit(regs["Gpio0_7Input"], 1) = get_bit(regs["Gpio0_7Output"], 1)) =>
        last.ret = (swTrack = "on")

\* configure, set(true), is_connected = true from a switch that was an input driven 1
C8_Witness ==
    /\ last.op = "usb_switch_is_connected" /\ swTrack = "on"
    /\ get_bit(regs["Gpio8_10Input"], 9)
    /\ ~get_bit(regs["Gpio0_7Input"], 1)
    /\ ~get_bit(regs0["Gpio0_7Dir"], 1) /\ get_bit(regs0["Gpio0_7Output"], 1)
    /\ last.ret = TRUE

\* positions in the session log of the calls of op that wrote the 0-7 Output register
OutputWrites(op) ==
    {i \in 1 .. Len(log) :
        /\ log[i].op = op
        /\ \E w \in Writes(log[i].xfers) : log[i].xfers[w][2] = "Gpio0_7Output"}

\* C9: on a RevC session FullDetach ends with GPIO0, GPIO1, GPIO3 outputs and Output
\* bits GPIO0 = 1 (power off), GPIO1 = 1 (data lines disconnected), GPIO3 = 0 (SLG_IO1
\* Low); FullAttach ends with them 0, 0, 1. The power write comes before the switch
\* write, which comes before the SLG_IO1 write, and slg_io_set is not refused.
C9_FullAttachDetach ==
    (rev = "RevC" /\ cmd.name \in {"FullAttach", "FullDetach"} /\ pc = "done") =>
        LET attach == (cmd.name = "FullAttach")
        IN  /\ {0, 1, 3} \subseteq regs["Gpio0_7Dir"]
            /\ get_bit(regs["Gpio0_7Output"], 0) = ~attach
            /\ get_bit(regs["Gpio0_7Output"], 1) = ~attach
            /\ get_bit(regs["Gpio0_7Output"], 3) = attach
            /\ \E i \in OutputWrites("dev_power_ctl") :
               \E j \in OutputWrites("usb_switch_set") :
               \E k \in OutputWrites("slg_io_set") :
                    /\ i < j /\ j < k
                    /\ OutputWrites("dev_power_ctl") = {i}
                    /\ OutputWrites("usb_switch_set") = {j}
                    /\ OutputWrites("slg_io_set") = {k}
            /\ \A i \in 1 .. Len(log) : log[i].op = "slg_io_set" => log[i].out = <<>>

\* FullDetach done on a board whose GPIO0, GPIO1, GPIO3 were inputs with SLG_IO1 bit 1
C9_Witness ==
    /\ rev = "RevC" /\ cmd.name = "FullDetach" /\ pc = "done"
    /\ regs0["Gpio0_7Dir"] \cap {0, 1, 3} = {}
    /\ get_bit(regs0["Gpio0_7Output"], 3)
    /\ ~get_bit(regs["Gpio0_7Output"], 3)

\* both operators have finished
RaceDone == opA.pc = "done" /\ opB.pc = "done"

\* the registers after the two calls one after the other, in either order
AThenB ==
    usb_switch_set(Interface(dev_power_ctl(Interface(regs0), opA.arg).io.regs),
                   opB.arg).io.regs
BThenA ==
    dev_power_ctl(Interface(usb_switch_set(Interface(regs0), opB.arg).io.regs),
                  opA.arg).io.regs

\* C10: modify_reg is not atomic. When one operator's write of the 0-7 Output register
\* falls between the other's read and write of it, the first operator's bit is back at
\* its old value in the end, and if that operator's call was to change the bit the final
\* registers are those of neither sequential order. Without such an overlap the final
\* registers are those of a sequential order.
C10_LostUpdate ==
    RaceDone =>
        /\ opB.stale =>
            /\ get_bit(regs["Gpio0_7Output"], 0) = get_bit(regs0["Gpio0_7Output"], 0)
            /\ get_bit(regs0["Gpio0_7Output"], 0) = opA.arg => regs \notin {AThenB, BThenA}
        /\ opA.stale =>
            /\ get_bit(regs["Gpio0_7Output"], 1) = get_bit(regs0["Gpio0_7Output"], 1)
            /\ get_bit(regs0["Gpio0_7Output"], 1) = opB.arg => regs \notin {AThenB, BThenA}
        /\ (~opA.stale /\ ~opB.stale) => regs \in {AThenB, BThenA}

\* dev_power_ctl(false) to switch power off was lost to a concurrent usb_switch_set
C10_Witness ==
    /\ RaceDone
    /\ opB.stale
    /\ opA.arg = FALSE
    /\ ~get_bit(regs["Gpio0_7Output"], 0)
    /\ regs \notin {AThenB, BThenA}

\* positions in the session log of the calls slg_io_set(SlgIo0, state) that wrote the
\* 8-10 Output register
Slg0Writes(state) ==
    {i \in 1 .. Len(log) :
        /\ log[i].op = "slg_io_set" /\ log[i].args = <<"SlgIo0", state>>
        /\ \E w \in Writes(log[i].xfers) : log[i].xfers[w][2] = "Gpio8_10Output"}

\* a RevC session of one of the three SDP commands
SdpSession == rev = "RevC" /\ cmd.name \in {"Sdp", "ForceSdp", "ReleaseSdp"}

\* what holds when the SDP command has returned: GPIO8 is an output; after Sdp its
\* Output bit is 0 and the one High write came before the one Low write; after ForceSdp
\* the bit is 1, after ReleaseSdp it is 0
SdpDone ==
    /\ pc = "done"
    /\ get_bit(regs["Gpio8_10Dir"], 8)
    /\ cmd.name = "Sdp" =>
            /\ ~get_bit(regs["Gpio8_10Output"], 8)
            /\ \E i \in Slg0Writes("High") : \E j \in Slg0Writes("Low") :
                    /\ i < j
                    /\ Slg0Writes("High") = {i} /\ Slg0Writes("Low") = {j}
                    /\ \E k \in 1 .. (i - 1) :
                            /\ log[k].op = "slg_io_set_mode"
                            /\ log[k].args = <<"SlgIo0", "Output">>
    /\ cmd.name = "ForceSdp" =>
            /\ get_bit(regs["Gpio8_10Output"], 8)
            /\ Slg0Writes("High") # {} /\ Slg0Writes("Low") = {}
    /\ cmd.name = "ReleaseSdp" =>
            /\ ~get_bit(regs["Gpio8_10Output"], 8)
            /\ Slg0Writes("Low") # {} /\ Slg0Writes("High") = {}

\* C11: on a RevC session, from any initial registers and whatever the externally driven
\* lines do meanwhile, Sdp sets SLG_IO0 (GPIO8) to output, drives it High and after the
\* countdown of ten drives it Low: the command always returns, with GPIO8 an output and
\* its Output bit 0, the High write strictly before the Low write, and the line High
\* all through the countdown. ForceSdp returns with the Output bit 1, ReleaseSdp with 0.
C11_SdpPulse ==
    /\ [](SdpSession /\ pc = "done" => SdpDone)
    /\ []((SdpSession /\ cmd.name = "Sdp" /\ pc \in {"sdp_countdown", "sdp_release"}) =>
            (get_bit(regs["Gpio8_10Dir"], 8) /\ get_bit(regs["Gpio8_10Output"], 8)))
    /\ (SdpSession /\ pc = "dispatch") ~> (SdpSession /\ SdpDone)

\* Sdp has returned on a board where GPIO8 was an input with Output bit 1 at the start
C11_Witness ==
    /\ SdpSession /\ cmd.name = "Sdp" /\ pc = "done"
    /\ ~get_bit(regs0["Gpio8_10Dir"], 8) /\ get_bit(regs0["Gpio8_10Output"], 8)
    /\ ~get_bit(regs["Gpio8_10Output"], 8)
    /\ Slg0Writes("High") # {} /\ Slg0Writes("Low") # {}

\* level of the switch enable line GPIO1 as the pin's mode defines it: the Output bit
\* when the Direction bit says output, the Input bit when it says input
EffectiveLevel(r) ==
    IF get_bit(r["Gpio0_7Dir"], 1)
    THEN get_bit(r["Gpio0_7Output"], 1)
    ELSE get_bit(r["Gpio0_7Input"], 1)

\* C12: in every register state usb_switch_is_connected() returns true exactly when the
\* effective level of GPIO1 is 0, the Output bit counting when GPIO1's Direction bit is
\* output and the Input bit when it is input: the function reads the Direction register
\* and takes the level from the register that the Direction bit selects.
C12_EffectiveLevel ==
    last.op = "usb_switch_is_connected" =>
        /\ last.ret = ~EffectiveLevel(last.pre)
        /\ \E i \in Reads(last.xfers) : last.xfers[i][2] = "Gpio0_7Dir"
        /\ last.xfers[Len(last.xfers)][2] =
                (IF get_bit(last.pre["Gpio0_7Dir"], 1) THEN "Gpio0_7Output"
                 ELSE "Gpio0_7Input")

InputRegOf(pin) ==
    CASE pin \in HeaderPin -> "Gpio17_20Input"
      [] pin = "SlgIo0" -> "Gpio8_10Input"
      [] pin = "SlgIo1" -> "Gpio0_7Input"

Pins == HeaderPin \cup SlgPin
PinOps == SetModeOps \cup GetModeOps \cup SetOps \cup GetOps

\* what get_mode(q) and get(q) return on the registers r
ModeReturned(r, q) ==
    IF q \in HeaderPin THEN gpio_header_get_mode(Interface(r), q).ret
    ELSE slg_io_get_mode(Interface(r), q).ret
StateReturned(r, q) ==
    IF q \in HeaderPin THEN gpio_header_get(Interface(r), q).ret
    ELSE slg_io_get(Interface(r), q).ret

Level(b) == IF b THEN "High" ELSE "Low"

\* the register the last call read last
LastRead == last.xfers[Len(last.xfers)]

\* C13: for every header pin and SLG pin p: get_mode(p) right after set_mode(p, m)
\* returns m; get(p) after set_mode(p, Output) and set(p, s) returns s, read from the
\* Output register; get(p) on a pin whose Direction bit says input returns the level of
\* its Input register bit, read from the Input register, whatever the Output bit is;
\* and a call on pin p leaves what get_mode(q) and get(q) return for every other pin q
\* as it was.
C13_PinRoundTrip ==
    /\ (last.op \in GetModeOps /\ pinTrack.pin = last.args[1]) =>
            last.ret = pinTrack.mode
    /\ (last.op \in GetOps /\ pinTrack.pin = last.args[1] /\ pinTrack.state # "none") =>
            /\ last.ret = pinTrack.state
            /\ LastRead = <<"R", OutputRegOf(last.args[1])>>
    /\ (/\ last.op \in GetOps
        /\ ~get_bit(last.pre[DirRegOf(last.args[1])], GpioOf(last.args[1]))) =>
            /\ last.ret = Level(get_bit(last.pre[InputRegOf(last.args[1])],
                                        GpioOf(last.args[1])))
            /\ LastRead = <<"R", InputRegOf(last.args[1])>>
    /\ last.op \in PinOps =>
            \A q \in Pins \ {last.args[1]} :
                /\ ModeReturned(regs, q) = ModeReturned(last.pre, q)
                /\ StateReturned(regs, q) = StateReturned(last.pre, q)

\* gpio_header_set_mode(P0, Output); gpio_header_set(P0, High); gpio_header_get(P0) on a
\* board where P0 was an input with Output bit 0, and whose Input bit reads 0
C13_Witness ==
    /\ last.op = "gpio_header_get" /\ last.args = <<"P0">>
    /\ pinTrack = [pin |-> "P0", mode |-> "Output", state |-> "High"]
    /\ last.ret = "High"
    /\ ~get_bit(regs0["Gpio17_20Dir"], 19) /\ ~get_bit(regs0["Gpio17_20Output"], 19)
    /\ ~get_bit(regs["Gpio17_20Input"], 19)

====
